---- MODULE Spec2Model ----
(***************************************************************************)
(* RepoGuardian: the concurrent backup-and-sync run of src/main.py         *)
(* (GitHubBackupTool) over the git operations of src/git_sync.py           *)
(* (GitRepositorySync) and the record store of src/database.py            *)
(* (RepositoryDatabase).                                                   *)
(*                                                                         *)
(* One task per configured repository runs process_repository on a pool   *)
(* worker; the main thread submits the tasks, collects their results,     *)
(* prunes old snapshots and queries the store.  The second entry point,   *)
(* GitRepositorySync.sync_multiple_repositories, runs sync_repo per        *)
(* repository on a pool of its own.  The version-control client, the       *)
(* filesystem and the SQLite file are the environment: each call into      *)
(* them succeeds or fails nondeterministically.                            *)
(***************************************************************************)
EXTENDS Integers, Sequences, FiniteSets, TLC

\* ------------------------------------------------------------------ bounds

\* Largest number of repository descriptors in the configuration file.
MaxRepos == 2
\* The wall clock (seconds) runs from FirstSecond up to FirstSecond + ClockSpan.
ClockSpan == 1
\* Largest number of operations on the environment (a git, filesystem or SQLite
\* call, with its retries when it is retried) that fail during one run.
MaxFaults == 2
MaxPathLen == 4
MaxRows == 2

\* ------------------------------------------------------- program constants

\* GitRepositorySync.__init__(..., max_retries = 3)
MaxRetries == 3
\* cleanup_old_backups(max_backups = 5)
MaxBackups == 5
\* GitHubBackupTool.__init__: max(1, min(max_workers, 10))
MinWorkers == 1
MaxWorkers == 10

\* ------------------------------------------------------------ name strings

\* A string is a sequence of one-character strings, so that split('_') and
\* the lexicographic sort of directory names can be computed.  A number inside
\* such a sequence stands for a fixed-width run of digits (a date or a time of
\* day of a strftime timestamp).
NameA  == <<"a">>
NameAX == <<"a", "_", "x">>
RepoNames == {NameA, NameAX}
\* A repo_name with a path separator in it, as in "owner/repo".
NameSlash == <<"a", "/", "x">>

\* ------------------------------------------------------------------ state

VARIABLES
    \* configuration and environment, fixed by Init
    entry,            \* the operation invoked: "backup_and_sync" (through run()),
                      \* "sync_multiple_repositories", "clone_repository",
                      \* "backup_repository", or "database" (the store alone)
    configStatus,     \* "ok" | "missing" | "invalid": what load_repositories finds
    repositories,     \* the configured descriptors, in file order: their names
    urls,             \* urls[i]: the url of descriptor i
    marker0,          \* marker0[i]: local path i holds a checkout (.git) as the run starts
    requestedWorkers, \* the --workers argument
    checkSameThread,  \* sqlite3 connection refuses use from another thread
    backups0,         \* the backup directory as the run finds it
    \* GitHubBackupTool
    shutdown,         \* shutdown_event
    mainPc,           \* position of the main thread in run()/backup_and_sync()
    results,          \* results dict of backup_and_sync: name -> outcome
    raised,           \* backup_and_sync raised to run()
    pruned,           \* number of cleanup_old_backups calls of the run
    cleanupError,     \* cleanup_old_backups raised GitSyncError
    runRaised,        \* run() raised to its caller
    closeCalls,       \* number of self.db.close() calls run() has made
    \* one process_repository call per descriptor
    pc,               \* pc[i]: position of task i
    outcome,          \* outcome[i]: the dict process_repository returns
    stage,            \* stage[i]: result of each stage of task i
    ops,              \* ops[i]: side effects task i has performed
    snap,             \* snap[i]: <<entry>> once backup_repository chose its path
    cancelSeen,       \* cancelSeen[i]: shutdown_event as the task read it at entry
    repo_id,          \* repo_id[i]: <<id>> once add_repository returned it
    retry,            \* retry[i]: what the last retry_operation call of task i did
    sync_result,      \* sync_result[i]: <<dict>> once sync_repository returned it
    progress_bars,    \* progress_bars[n]: the last update_progress call bar n received
    \* sync_multiple_repositories
    completed,        \* the nonlocal counter of sync_repo
    seen,             \* seen[i]: the value task i read for completed += 1
    \* filesystem
    lp,               \* lp[i]: state of descriptor i's local path
    synced,           \* synced[i]: a pull of this run updated the working copy
    backups,          \* entries of base_backup_dir
    clock,            \* datetime.now(), in seconds
    \* RepositoryDatabase
    dbOpen,           \* self.conn is open
    rows,             \* table repositories, row id = index
    dbCall,           \* <<call>>: the last add_repository call made on the store
                      \* by itself, with the table it found
    \* history
    faults,           \* number of operations on the environment that have failed
    statsOk           \* get_sync_statistics returned

vars == << entry, completed, seen, configStatus, repositories, urls, marker0,
           requestedWorkers, checkSameThread, backups0, shutdown, mainPc,
           results, raised, pruned, cleanupError, runRaised, closeCalls, pc,
           outcome, stage, ops, snap, cancelSeen, repo_id, retry, sync_result,
           progress_bars,
           lp, synced, backups, clock, dbOpen, rows, dbCall, faults, statsOk >>

envVars  == << entry, configStatus, repositories, urls, marker0,
               requestedWorkers, checkSameThread, backups0 >>
mainVars == << mainPc, results, raised, pruned, cleanupError, runRaised,
              closeCalls, statsOk >>
taskVars == << pc, outcome, stage, ops, snap, cancelSeen, repo_id, retry,
              sync_result, progress_bars >>
countVars == << completed, seen >>
fsVars   == << lp, synced, backups, clock >>
dbVars   == << dbOpen, rows, dbCall >>

Tasks == 1..Len(repositories)
NumRepos == Len(repositories)

\* ------------------------------------------------------------- descriptors

\* Descriptor i of the configuration: distinct descriptors have distinct urls
\* and local paths (both stand for the index), names may repeat.
Descriptor(i) == [name |-> repositories[i], url |-> i, local_path |-> i]

DistinctNames ==
    \A i, j \in Tasks : i # j => repositories[i] # repositories[j]

\* ----------------------------------------------------------------- outcomes

NoPath == <<>>

Cancelled == [status |-> "cancelled", error |-> TRUE, backup_path |-> NoPath]
\* A failed result that carries no 'error'.
FailedNoDetail == [status |-> "failed", error |-> FALSE, backup_path |-> NoPath]
Failed    == [status |-> "failed", error |-> TRUE, backup_path |-> NoPath]
Pending   == [status |-> "none", error |-> FALSE, backup_path |-> NoPath]
Success(path) == [status |-> "success", error |-> FALSE, backup_path |-> path]

NoStages == [clone |-> "none", sync |-> "none", backup |-> "none", db |-> "none"]

\* ------------------------------------------------------------- worker pool

\* GitHubBackupTool.__init__: self.max_workers = max(1, min(max_workers, 10))
Min(a, b) == IF a < b THEN a ELSE b
Max(a, b) == IF a > b THEN a ELSE b

\* A clamp without the lower end.
ClampWorkersNoFloor(n) == Min(n, MaxWorkers)

ClampWorkers(n) == Max(MinWorkers, Min(n, MaxWorkers))

max_workers == ClampWorkers(requestedWorkers)

\* ThreadPoolExecutor(max_workers=self.max_workers): of GitHubBackupTool in
\* backup_and_sync, of GitRepositorySync (which takes the argument as it is)
\* in sync_multiple_repositories.
PoolSize ==
    IF entry = "backup_and_sync" THEN max_workers ELSE requestedWorkers

\* A pool whose workers never come back once they have taken a task.
ExecutingForever(i) == pc[i] \notin {"unsubmitted", "queued"}

\* A task occupies a pool worker from the moment the worker takes it off the
\* queue until process_repository returns.
Executing(i) == pc[i] \notin {"unsubmitted", "queued", "done"}
Running == {i \in Tasks : Executing(i)}

\* A pool worker is free and task i is the next of the queue.
Dequeue(i) ==
    /\ pc[i] = "queued"
    /\ \A j \in Tasks : j < i => pc[j] # "queued"
    /\ Cardinality(Running) < PoolSize

\* ------------------------------------------------------ validate_repo_url

\* A url as urlparse splits it.  netloc is a sequence of pieces of text and
\* path a sequence of characters; a piece or a character is a string that is
\* never looked into.
Url(scheme, netloc, path) == [scheme |-> scheme, netloc |-> netloc, path |-> path]

GoodUrl  == Url("https", <<"github.com">>, <<"/", "u", "/", "r">>)
FtpUrl   == Url("ftp", <<"github.com">>, <<"/", "u", "/", "r">>)
ShortUrl == Url("https", <<"github.com">>, <<"/", "u">>)

\* The urls clone_repository is called with: every scheme and netloc below
\* with every path of at most MaxPathLen characters.  LookAlikeHost is
\* "github.com.evil.net".
Schemes == {"https", "http", "ftp"}
LookAlikeHost == <<"github.com", ".evil.net">>
Netlocs == {<<"github.com">>, LookAlikeHost, <<"example.org">>}
PathChars == {"/", "u", "r"}
Paths == UNION {[1..n -> PathChars] : n \in 0..MaxPathLen}
Urls == {Url(sc, nl, p) : sc \in Schemes, nl \in Netlocs, p \in Paths}

valid_schemes == {"http", "https"}
valid_domains == {<<"github.com">>, <<"gitlab.com">>, <<"bitbucket.org">>,
                  <<"dev.azure.com">>}

\* t in s, for strings: t is a run of consecutive elements of s.
Contains(s, t) ==
    \E k \in 0..(Len(s) - Len(t)) : SubSeq(s, k + 1, k + Len(t)) = t

\* A strip that leaves the string as it is.
StripNone(s, c) == s

\* s.strip(c)
RECURSIVE LStrip(_, _)
LStrip(s, c) == IF s # <<>> /\ Head(s) = c THEN LStrip(Tail(s), c) ELSE s
RECURSIVE RStrip(_, _)
RStrip(s, c) ==
    IF s # <<>> /\ s[Len(s)] = c THEN RStrip(SubSeq(s, 1, Len(s) - 1), c) ELSE s
Strip(s, c) == RStrip(LStrip(s, c), c)

\* s.split(c): the pieces between the occurrences of c, empty ones included.
RECURSIVE Split(_, _)
Split(s, c) ==
    IF \A k \in 1..Len(s) : s[k] # c THEN <<s>>
    ELSE LET at == CHOOSE k \in 1..Len(s) :
                       s[k] = c /\ \A j \in 1..(k - 1) : s[j] # c
         IN  <<SubSeq(s, 1, at - 1)>> \o Split(SubSeq(s, at + 1, Len(s)), c)

\* validate_repo_url(url)
ValidateRepoUrl(url) ==
    /\ url.scheme \in valid_schemes
    /\ \E domain \in valid_domains : Contains(url.netloc, domain)
    /\ Len(Split(Strip(url.path, "/"), "/")) >= 2

\* ------------------------------------------------------- retry_operation

\* A back-off that waits one second before every retry.
Pow2Const(n) == 1

\* 2 ** attempt
RECURSIVE Pow2(_)
Pow2(n) == IF n = 0 THEN 1 ELSE 2 * Pow2(n - 1)

\* A loop that sleeps after every failed attempt, the last one too.
RECURSIVE RetryLoopSleepsLast(_, _)
RetryLoopSleepsLast(fails, attempt) ==
    IF attempt >= MaxRetries
    THEN [returned |-> FALSE, calls |-> attempt, sleeps |-> <<>>,
          last_error |-> <<attempt - 1>>]
    ELSE IF attempt >= fails
    THEN [returned |-> TRUE, calls |-> attempt + 1, sleeps |-> <<>>,
          last_error |-> <<>>]
    ELSE LET rest == RetryLoopSleepsLast(fails, attempt + 1)
         IN  [rest EXCEPT !.sleeps = <<Pow2(attempt)>> \o @]

\* The loop of retry_operation from index `attempt` on, for an operation
\* whose first `fails` invocations raise and whose later ones return; the
\* invocation of index k raises error k.  The result tells whether
\* retry_operation returns, how often it invoked the operation, the waits it
\* slept, and the error its GitSyncError wraps (last_error).
RECURSIVE RetryLoop(_, _)
RetryLoop(fails, attempt) ==
    IF attempt >= MaxRetries
    THEN [returned |-> FALSE, calls |-> attempt, sleeps |-> <<>>,
          last_error |-> <<>>]
    ELSE IF attempt >= fails
    THEN [returned |-> TRUE, calls |-> attempt + 1, sleeps |-> <<>>,
          last_error |-> <<>>]
    ELSE IF attempt < MaxRetries - 1
    THEN LET rest == RetryLoop(fails, attempt + 1)
         IN  [rest EXCEPT !.sleeps = <<Pow2(attempt)>> \o @]
    ELSE [returned |-> FALSE, calls |-> attempt + 1, sleeps |-> <<>>,
          last_error |-> <<attempt>>]

RetryOperation(fails) == RetryLoop(fails, 0)

\* What a task keeps of a retry_operation call: the number of failing
\* invocations the operation had in store, and what the call did.
NoRetry == << >>
Retried(fails) == << [fails |-> fails, did |-> RetryOperation(fails)] >>

\* ------------------------------------------------------------ backup names

FirstSecond == MaxBackups

\* A directory entry of base_backup_dir: f"{repo_name}_{timestamp}", whole
\* (the copy completed) or not.
Entry(name, ts, whole) == [name |-> name, ts |-> ts, complete |-> whole]

SameItem(e, f) == e.name = f.name /\ e.ts = f.ts

CharCode(c) ==
    CASE c = "/" -> 47
      [] c = "_" -> 95
      [] c = "a" -> 97
      [] c = "x" -> 120

\* The directory name as a sequence of tokens: the characters of the name, the
\* separator, and the timestamp (fixed-width digits, ordered as the number).
ItemTokens(e) ==
    [k \in 1..Len(e.name) |-> [digits |-> FALSE, code |-> CharCode(e.name[k])]]
    \o << [digits |-> FALSE, code |-> CharCode("_")],
          [digits |-> TRUE, code |-> e.ts] >>

\* Order of two tokens in a Python string comparison: digits sort before '_'
\* and letters.
TokenLess(x, y) ==
    IF x.digits = y.digits THEN x.code < y.code ELSE x.digits

RECURSIVE SeqLess(_, _)
SeqLess(s, t) ==
    IF s = <<>> THEN t # <<>>
    ELSE IF t = <<>> THEN FALSE
    ELSE IF Head(s) = Head(t) THEN SeqLess(Tail(s), Tail(t))
    ELSE TokenLess(Head(s), Head(t))

ItemLess(e, f) == SeqLess(ItemTokens(e), ItemTokens(f))

\* item.split('_')[0]: the characters before the first underscore.
RECURSIVE UpToUnderscore(_)
UpToUnderscore(s) ==
    IF s = <<>> \/ Head(s) = "_" THEN <<>>
    ELSE <<Head(s)>> \o UpToUnderscore(Tail(s))

GroupKey(e) == UpToUnderscore(e.name \o <<"_">>)

\* backups.sort(reverse=True): the k-th item is the one with k - 1 items
\* above it.
SortedDesc(S) ==
    [k \in 1..Cardinality(S) |->
        CHOOSE e \in S : Cardinality({f \in S : ItemLess(e, f)}) = k - 1]

\* backups[max_backups:] of one group, in the order the loop removes them.
GroupSurplus(dir, g, keep) ==
    LET group  == {e \in dir : GroupKey(e) = g}
        sorted == SortedDesc(group)
    IN  IF Cardinality(group) > keep
        THEN SubSeq(sorted, keep + 1, Len(sorted))
        ELSE <<>>

Range(s) == {s[k] : k \in 1..Len(s)}

GroupKeys(dir) == {GroupKey(e) : e \in dir}

\* Every entry cleanup_old_backups(keep) removes when no removal fails.
Surplus(dir, keep) ==
    UNION {Range(GroupSurplus(dir, g, keep)) : g \in GroupKeys(dir)}

\* The orders in which the groups can be visited (os.listdir order).
GroupOrders(S) ==
    {p \in [1..Cardinality(S) -> S] : \A a, b \in 1..Cardinality(S) : a # b => p[a] # p[b]}

RECURSIVE Flatten(_, _, _, _)
Flatten(dir, order, keep, k) ==
    IF k > Len(order) THEN <<>>
    ELSE GroupSurplus(dir, order[k], keep) \o Flatten(dir, order, keep, k + 1)

\* The removal sequences cleanup_old_backups(keep) can follow.
RemovalOrders(dir, keep) ==
    {Flatten(dir, order, keep, 1) : order \in GroupOrders(GroupKeys(dir))}

\* ------------------------------------------------------------ record store

NoRows == << >>

RowIds(table) == DOMAIN table

Matching(table, name, url, local_path) ==
    {id \in RowIds(table) : \/ table[id].name = name
                            \/ table[id].url = url
                            \/ table[id].local_path = local_path}

\* add_repository: SELECT id ... WHERE name = ? OR url = ? OR local_path = ?;
\* the row found is updated and reactivated, else a row is inserted.
AddRepositoryId(table, name, url, local_path) ==
    LET found == Matching(table, name, url, local_path)
    IN  IF found # {}
        THEN CHOOSE id \in found : \A other \in found : id <= other
        ELSE Len(table) + 1

AddRepository(table, name, url, local_path) ==
    LET found == Matching(table, name, url, local_path)
        id    == AddRepositoryId(table, name, url, local_path)
    IN  IF found # {}
        THEN [table EXCEPT ![id].name = name, ![id].url = url,
                           ![id].local_path = local_path, ![id].is_active = TRUE]
        ELSE Append(table, [name |-> name, url |-> url, local_path |-> local_path,
                            last_sync |-> <<>>, is_active |-> TRUE])

\* The (name, url, local_path) of a row.
Triple(row) == << row.name, row.url, row.local_path >>

\* The triples add_repository is called with by a caller of the store.
Triples == RepoNames \X (1..MaxRepos) \X (1..MaxRepos)

\* deactivate_repository -> update_repository(repo_id, is_active=0):
\* UPDATE ... WHERE id = ? (no row, no change).
DeactivateRepository(table, id) ==
    IF id \in RowIds(table)
    THEN [table EXCEPT ![id].is_active = FALSE]
    ELSE table

\* An update whose WHERE clause matches no row.
UpdateLastSyncNoRow(table, id, sync_time) == table

\* update_last_sync -> update_repository(repo_id, last_sync = sync_time):
\* UPDATE ... WHERE id = ? (no row, no change).
UpdateLastSync(table, id, sync_time) ==
    IF id \in RowIds(table)
    THEN [table EXCEPT ![id].last_sync = <<sync_time>>]
    ELSE table

\* A store call made by `thread` goes through iff the connection is open and,
\* when the connection checks its thread, the caller is the thread that
\* opened it (the main thread).
StoreUsable(thread) ==
    dbOpen /\ (checkSameThread => thread = "main")

\* RepositoryDatabase.close() called by `thread`: conn.close() raises in another
\* thread under the thread check; close() logs that and leaves the connection.
AfterClose(thread) ==
    IF checkSameThread /\ thread # "main" THEN dbOpen ELSE FALSE

\* ------------------------------------------------------------------- Init

\* The configurations load_repositories can return: the lists of at most
\* MaxRepos descriptors (validate_config does not ask for distinct names); the
\* first descriptor is named NameA.
Configs ==
    {c \in UNION {[1..n -> RepoNames] : n \in 0..MaxRepos} :
        c # <<>> => c[1] = NameA}

\* --workers values: one below the range, one above it, and one per pool size
\* up to the number of descriptors.
WorkerRequests == {MinWorkers - 1, MaxWorkers + 1} \cup 2..MaxRepos

\* A local path as a run can find it: nothing there, a directory without a
\* checkout marker, or a checkout.
LocalPaths0 == {"absent", "stale", "repo"}

\* The backup directory is empty, or holds MaxBackups snapshots of one
\* repository left by earlier runs, the newest taken in second FirstSecond.
OldSnapshots(name) == {Entry(name, t, TRUE) : t \in 1..MaxBackups}
BackupDirs0 == {{}, OldSnapshots(NameAX)}

LastSecond == FirstSecond + ClockSpan

\* update_progress(message, percentage), by the stage that calls it.
Event(stage_name, pct) == [stage |-> stage_name, pct |-> pct]

\* tqdm(total=100, desc="Processing <name>"): nothing received yet.
NewBar == Event("none", 0)

\* backup_and_sync runs on what the configuration file and --workers give;
\* validate_config has accepted every url of the list it returns.
\* sync_multiple_repositories is called with a list of descriptors and a
\* pool size of 1 up to the number of descriptors; it uses no store.
\* clone_repository is called by itself with one url and one local path, and
\* backup_repository with one local path and one name.  "database" is a
\* caller that only uses the store, from the thread that opened it.
Init ==
    /\ entry \in {"backup_and_sync", "sync_multiple_repositories",
                  "clone_repository", "backup_repository", "database"}
    /\ IF entry = "backup_and_sync"
       THEN /\ configStatus \in {"ok", "missing", "invalid"}
            /\ requestedWorkers \in WorkerRequests
            /\ checkSameThread \in BOOLEAN
            /\ backups0 \in BackupDirs0
       ELSE /\ configStatus = "ok"
            /\ requestedWorkers \in IF entry = "sync_multiple_repositories"
                                    THEN 1..MaxRepos ELSE {1}
            /\ checkSameThread = TRUE
            /\ backups0 = {}
    /\ repositories \in IF entry = "clone_repository" THEN {<<NameA>>}
                        ELSE IF entry = "backup_repository"
                        THEN {<<n>> : n \in RepoNames \cup {NameSlash}}
                        ELSE IF entry = "database" THEN {<<>>}
                        ELSE IF configStatus = "ok" THEN Configs ELSE {<<>>}
    /\ urls \in IF entry = "clone_repository" THEN [Tasks -> Urls]
                ELSE {[i \in Tasks |-> GoodUrl]}
    /\ lp \in [Tasks -> LocalPaths0]
    /\ marker0 = [i \in Tasks |-> lp[i] = "repo"]
    /\ completed = 0
    /\ seen = [i \in Tasks |-> 0]
    /\ shutdown = FALSE
    /\ mainPc = "start"
    /\ results = << >>
    /\ raised = FALSE
    /\ pruned = 0
    /\ cleanupError = FALSE
    /\ runRaised = FALSE
    /\ closeCalls = 0
    /\ pc = [i \in Tasks |-> "unsubmitted"]
    /\ outcome = [i \in Tasks |-> Pending]
    /\ stage = [i \in Tasks |-> NoStages]
    /\ ops = [i \in Tasks |-> {}]
    /\ snap = [i \in Tasks |-> NoPath]
    /\ cancelSeen = [i \in Tasks |-> FALSE]
    /\ repo_id = [i \in Tasks |-> << >>]
    /\ retry = [i \in Tasks |-> NoRetry]
    /\ sync_result = [i \in Tasks |-> << >>]
    /\ progress_bars = [n \in {repositories[i] : i \in Tasks} |-> NewBar]
    /\ synced = [i \in Tasks |-> FALSE]
    /\ backups = backups0
    /\ clock = FirstSecond
    /\ dbOpen = TRUE
    /\ rows = NoRows
    /\ dbCall = << >>
    /\ faults = 0
    /\ statsOk = FALSE

\* self.shutdown_event.is_set()
ShutdownIgnored == FALSE
ShutdownRequested == shutdown

\* os.path.exists(os.path.join(local_path, '.git'))
HasDirectory(i) == lp[i] # "absent"
HasMarker(i) == lp[i] = "repo"

\* `n` more operations on the environment fail.
Faults(n) == faults + n <= MaxFaults /\ faults' = faults + n

\* ---------------------------------------------------- process_repository

\* process_repository returns `result` (or its except clause builds it); in
\* sync_repo the result is fixed, and completed += 1 comes before the return.
Return(i, result) ==
    /\ outcome' = [outcome EXCEPT ![i] = result]
    /\ pc' = [pc EXCEPT ![i] = IF entry = "sync_multiple_repositories"
                                THEN "count" ELSE "done"]

Did(i, what) == ops' = [ops EXCEPT ![i] = @ \cup what]

\* A pool worker takes the next task off the queue and enters
\* process_repository: the shutdown check, os.makedirs(local_path,
\* exist_ok=True), and the checkout-marker test.
TaskStart(i) ==
    /\ entry = "backup_and_sync"
    /\ Dequeue(i)
    /\ cancelSeen' = [cancelSeen EXCEPT ![i] = shutdown]
    /\ \/ /\ ShutdownRequested
          /\ Return(i, Cancelled)
          /\ UNCHANGED << lp, ops, stage, faults >>
       \/ /\ ~ShutdownRequested
          /\ lp' = [lp EXCEPT ![i] = IF @ = "absent" THEN "empty" ELSE @]
          /\ Did(i, {"makedirs"})
          /\ IF HasMarker(i)
             THEN /\ pc' = [pc EXCEPT ![i] = "sync"]
                  /\ stage' = [stage EXCEPT ![i].clone = "skipped"]
             ELSE /\ pc' = [pc EXCEPT ![i] = "clone"]
                  /\ UNCHANGED stage
          /\ UNCHANGED << outcome, faults >>
       \/ \* the directory cannot be created
          /\ ~ShutdownRequested
          /\ lp[i] = "absent"
          /\ Return(i, Failed)
          /\ Faults(1)
          /\ UNCHANGED << lp, ops, stage >>
    /\ UNCHANGED << envVars, countVars, shutdown, mainVars, snap, repo_id, retry, sync_result, progress_bars, synced, backups,
                    clock, dbVars >>

\* An except clause that raises without removing what is at the local path.
CloneFailedNoCleanup(i, left, done, cost) ==
    /\ stage' = [stage EXCEPT ![i].clone = "failed"]
    /\ Return(i, Failed)
    /\ lp' = [lp EXCEPT ![i] = left]
    /\ Did(i, done)
    /\ Faults(cost)

\* The except clause of clone_repository, entered with the local path in
\* state `left`: rmtree of the path if it exists, then GitSyncError, which
\* process_repository turns into a failed outcome.  When this rmtree raises,
\* its error leaves clone_repository in place of GitSyncError.
CloneFailed(i, left, done, cost) ==
    /\ stage' = [stage EXCEPT ![i].clone = "failed"]
    /\ Return(i, Failed)
    /\ IF left = "absent"
       THEN /\ lp' = [lp EXCEPT ![i] = left]
            /\ Did(i, done)
            /\ Faults(cost)
       ELSE \/ /\ lp' = [lp EXCEPT ![i] = "absent"]
               /\ Did(i, done \cup {"rmtree"})
               /\ Faults(cost)
            \/ \* this rmtree raises
               /\ lp' = [lp EXCEPT ![i] = left]
               /\ Did(i, done \cup {"rmtree", "cleanup_failed"})
               /\ Faults(cost + 1)

\* n times the call e
Repeat(e, n) == [k \in 1..n |-> e]

\* The update_progress calls of one stage.  The callback is the one
\* process_repository passes; the other callers pass none.  It updates
\* progress_bars[repo['name']]: configured entries of one name have one bar.
\* The calls reach the bar in order; it shows the last one.
\* (git calls a progress callable with four arguments, which update_progress
\* does not take: nothing of git's own progress reaches the bar.)
Emit(i, evs) ==
    progress_bars' = [progress_bars EXCEPT ![repositories[i]] =
                         IF entry = "backup_and_sync" THEN evs[Len(evs)] ELSE @]

\* clone_repository: "Starting clone operation" 0, and after the clone
\* "Clone completed successfully" 100.
CloneEvents(ok) ==
    << Event("clone", 0) >> \o (IF ok THEN << Event("clone", 100) >> ELSE << >>)

\* sync_repository: "Starting sync operation" 0 before git.Repo(local_path),
\* "Fetch completed, starting pull" 50 in each attempt whose fetch returned
\* (pulls of them failed), and "Pull completed" 100 in the attempt that
\* went through.
SyncEvents(pulls, ok) ==
    << Event("sync", 0) >> \o Repeat(Event("sync", 50), pulls)
        \o (IF ok THEN << Event("sync", 50), Event("sync", 100) >> ELSE << >>)

\* backup_repository: "Starting backup operation" 0, and "Backup completed"
\* 100 after the copy.
BackupEvents(ok) ==
    << Event("backup", 0) >> \o (IF ok THEN << Event("backup", 100) >> ELSE << >>)

\* Nothing is removed between the attempts of the loop: when the first
\* clone_from left files, the later calls are made on them.
RetriedOn(left) == IF left = "partial" THEN {"clone_nonempty"} ELSE {}

\* if os.path.exists(local_path): shutil.rmtree(local_path)
Removal(i) == IF lp[i] # "absent" THEN {"rmtree"} ELSE {}

\* clone_repository(url, local_path): the url check, rmtree of what is there,
\* makedirs, and retry_operation(clone_with_progress).  git clones only into
\* an empty directory, and a failed clone may leave files: an attempt can
\* succeed only if the attempts before it left nothing.  Called by
\* process_repository, a clone that returned is followed by the sync.
CloneRepository(i) ==
    /\ pc[i] = "clone"
    /\ \/ \* the url is rejected
          /\ ~ValidateRepoUrl(urls[i])
          /\ CloneFailed(i, lp[i], {}, 0)
          /\ UNCHANGED << retry, progress_bars >>
       \/ \E fails \in 0..(MaxRetries - 1) :
             /\ ValidateRepoUrl(urls[i])
             /\ RetryOperation(fails).returned
             /\ retry' = [retry EXCEPT ![i] = Retried(fails)]
             /\ lp' = [lp EXCEPT ![i] = "repo"]
             /\ Did(i, Removal(i) \cup {"makedirs", "clone"})
             /\ Emit(i, CloneEvents(TRUE))
             /\ stage' = [stage EXCEPT ![i].clone = "ok"]
             /\ pc' = [pc EXCEPT ![i] = IF entry = "clone_repository"
                                         THEN "done" ELSE "sync"]
             /\ Faults(IF fails > 0 THEN 1 ELSE 0)
             /\ UNCHANGED outcome
       \/ \* every attempt fails
          /\ ValidateRepoUrl(urls[i])
          /\ ~RetryOperation(MaxRetries).returned
          /\ retry' = [retry EXCEPT ![i] = Retried(MaxRetries)]
          /\ \E left \in {"empty", "partial"} :
                CloneFailed(i, left, Removal(i) \cup {"makedirs", "clone"}
                                        \cup RetriedOn(left), 1)
          /\ Emit(i, CloneEvents(FALSE))
       \/ \* the first shutil.rmtree raises
          /\ ValidateRepoUrl(urls[i])
          /\ lp[i] # "absent"
          /\ CloneFailed(i, lp[i], {"rmtree"}, 1)
          /\ Emit(i, CloneEvents(FALSE))
          /\ UNCHANGED retry
       \/ \* os.makedirs raises after the rmtree
          /\ ValidateRepoUrl(urls[i])
          /\ CloneFailed(i, "absent", Removal(i), 1)
          /\ Emit(i, CloneEvents(FALSE))
          /\ UNCHANGED retry
    /\ UNCHANGED << envVars, countVars, shutdown, mainVars, snap, cancelSeen, repo_id,
                    sync_result, synced, backups, clock, dbVars >>

\* A process_repository that goes on to the backup whatever the sync returned.
SyncFailedContinues(i) ==
    /\ stage' = [stage EXCEPT ![i].sync = "failed"]
    /\ sync_result' = [sync_result EXCEPT
                          ![i] = << [status |-> "failed", error |-> "error"] >>]
    /\ pc' = [pc EXCEPT ![i] = "backup"]
    /\ UNCHANGED outcome

\* The dict sync_repository returns from its try block.
SyncSuccessResult(now) ==
    [status |-> "success", timestamp |-> now, branch |-> "branch",
     latest_commit |-> "commit"]

\* The dict sync_repository returns from its except clause.
SyncFailedResult == [status |-> "failed", error |-> "error"]

\* A sync_repository whose failure leaves it as GitSyncError: no dict is
\* returned, and the except clause of process_repository makes the outcome.
SyncFailedRaises(i) ==
    /\ stage' = [stage EXCEPT ![i].sync = "failed"]
    /\ UNCHANGED sync_result
    /\ Return(i, Failed)

\* sync_repository returns a failed result, which process_repository returns
\* as it is.
SyncFailed(i) ==
    /\ stage' = [stage EXCEPT ![i].sync = "failed"]
    /\ sync_result' = [sync_result EXCEPT ![i] = << SyncFailedResult >>]
    /\ Return(i, Failed)

\* sync_repository(local_path): git.Repo(local_path),
\* retry_operation(fetch_and_pull), then the branch and the head commit are
\* read.
SyncRepository(i) ==
    /\ pc[i] = "sync"
    /\ \/ \* the path holds no checkout: git.Repo raises
          /\ lp[i] # "repo"
          /\ SyncFailed(i)
          /\ Emit(i, SyncEvents(0, FALSE))
          /\ UNCHANGED << ops, synced, faults, retry >>
       \/ \* git.Repo raises: no attempt is made
          /\ lp[i] = "repo"
          /\ SyncFailed(i)
          /\ Emit(i, SyncEvents(0, FALSE))
          /\ Faults(1)
          /\ UNCHANGED << ops, synced, retry >>
       \/ \* every attempt fails, in fetch or in pull
          /\ lp[i] = "repo"
          /\ ~RetryOperation(MaxRetries).returned
          /\ retry' = [retry EXCEPT ![i] = Retried(MaxRetries)]
          /\ \E pulls \in 0..MaxRetries :
                /\ Did(i, IF pulls = 0 THEN {"fetch"} ELSE {"fetch", "pull"})
                /\ Emit(i, SyncEvents(pulls, FALSE))
          /\ SyncFailed(i)
          /\ Faults(1)
          /\ UNCHANGED synced
       \/ \E fails \in 0..(MaxRetries - 1) :
             /\ lp[i] = "repo"
             /\ RetryOperation(fails).returned
             /\ retry' = [retry EXCEPT ![i] = Retried(fails)]
             /\ Did(i, {"fetch", "pull"})
             /\ \E pulls \in 0..fails : Emit(i, SyncEvents(pulls, TRUE))
             /\ synced' = [synced EXCEPT ![i] = TRUE]
             /\ \/ /\ stage' = [stage EXCEPT ![i].sync = "success"]
                   /\ sync_result' = [sync_result EXCEPT
                                         ![i] = << SyncSuccessResult(clock) >>]
                   /\ pc' = [pc EXCEPT ![i] = "backup"]
                   /\ Faults(IF fails > 0 THEN 1 ELSE 0)
                   /\ UNCHANGED outcome
                \/ \* repo.active_branch or repo.head.commit raises
                   /\ SyncFailed(i)
                   /\ Faults(IF fails > 0 THEN 2 ELSE 1)
    /\ UNCHANGED << envVars, countVars, shutdown, mainVars, snap, cancelSeen, repo_id,
                    lp, backups, clock, dbVars >>

\* A backup_repository that returns an empty path instead of raising:
\* process_repository goes on to the store.
BackupFailedReturnsEmpty(i) ==
    /\ stage' = [stage EXCEPT ![i].backup = "failed"]
    /\ pc' = [pc EXCEPT ![i] = "db_add"]
    /\ UNCHANGED outcome

\* GitSyncError out of backup_repository, which process_repository turns into
\* a failed outcome.
BackupFailed(i) ==
    /\ stage' = [stage EXCEPT ![i].backup = "failed"]
    /\ Return(i, Failed)

\* shutil.copytree(local_path, backup_path) lists the source before it creates
\* the destination: without a source every attempt raises and creates nothing.
CopyAlwaysStarts(i) == TRUE
CopyCanStart(i) == lp[i] # "absent"

\* os.path.join(self.base_backup_dir, f"{repo_name}_{timestamp}"), as the
\* components below the base directory: a separator in the name makes the
\* snapshot a directory of a subdirectory, which copytree creates on the way.
BackupPathParts(e) == Split(e.name, "/")
DirectlyUnderBase(e) == Len(BackupPathParts(e)) = 1

\* shutil.copytree(local_path, backup_path) raises FileExistsError when
\* backup_path is there already, whatever it holds.
DestinationNeverTaken(dir, dest) == FALSE

DestinationTaken(dir, dest) == \E e \in dir : SameItem(e, dest)

\* backup_repository(local_path, name): the timestamp is read and the
\* destination name built once, before the loop; then
\* retry_operation(copy_with_progress).  shutil.copytree refuses an existing
\* destination and leaves what it copied when it fails, so that an attempt can
\* succeed only if the destination is free and the attempts before it created
\* nothing.
BackupRepository(i) ==
    /\ pc[i] = "backup"
    /\ Did(i, {"copy"})
    /\ \E now \in clock..LastSecond :
       LET dest  == Entry(repositories[i], now, TRUE)
           taken == DestinationTaken(backups, dest)
       IN  /\ clock' = now
           /\ snap' = [snap EXCEPT ![i] = <<dest>>]
           /\ \/ \E fails \in 0..(MaxRetries - 1) :
                    /\ CopyCanStart(i)
                    /\ ~taken
                    /\ RetryOperation(fails).returned
                    /\ retry' = [retry EXCEPT ![i] = Retried(fails)]
                    /\ backups' = backups \cup {dest}
                    /\ Emit(i, BackupEvents(TRUE))
                    /\ stage' = [stage EXCEPT ![i].backup = "ok"]
                    /\ Faults(IF fails > 0 THEN 1 ELSE 0)
                    /\ IF entry = "backup_and_sync"
                       THEN /\ pc' = [pc EXCEPT ![i] = "db_add"]
                            /\ UNCHANGED outcome
                       ELSE \* sync_result['backup_path'] = backup_path
                            Return(i, Success(<<dest>>))
              \/ \* there is no source: every attempt fails
                 /\ ~CopyCanStart(i)
                 /\ ~RetryOperation(MaxRetries).returned
                 /\ retry' = [retry EXCEPT ![i] = Retried(MaxRetries)]
                 /\ BackupFailed(i)
                 /\ Emit(i, BackupEvents(FALSE))
                 /\ UNCHANGED << backups, faults >>
              \/ \* the destination exists: every attempt fails
                 /\ CopyCanStart(i)
                 /\ taken
                 /\ ~RetryOperation(MaxRetries).returned
                 /\ retry' = [retry EXCEPT ![i] = Retried(MaxRetries)]
                 /\ BackupFailed(i)
                 /\ Emit(i, BackupEvents(FALSE))
                 /\ UNCHANGED << backups, faults >>
              \/ \* an attempt stops half way; the later ones find its files
                 /\ CopyCanStart(i)
                 /\ ~taken
                 /\ ~RetryOperation(MaxRetries).returned
                 /\ retry' = [retry EXCEPT ![i] = Retried(MaxRetries)]
                 /\ backups' = backups \cup {Entry(dest.name, dest.ts, FALSE)}
                 /\ BackupFailed(i)
                 /\ Emit(i, BackupEvents(FALSE))
                 /\ Faults(1)
              \/ \* no attempt creates anything
                 /\ CopyCanStart(i)
                 /\ ~taken
                 /\ ~RetryOperation(MaxRetries).returned
                 /\ retry' = [retry EXCEPT ![i] = Retried(MaxRetries)]
                 /\ BackupFailed(i)
                 /\ Emit(i, BackupEvents(FALSE))
                 /\ Faults(1)
                 /\ UNCHANGED backups
    /\ UNCHANGED << envVars, countVars, shutdown, mainVars, cancelSeen, repo_id,
                    sync_result, lp, synced, dbVars >>

\* A process_repository whose try block does not cover the store calls.
StoreCallRaises(i) ==
    /\ stage' = [stage EXCEPT ![i].db = "failed"]
    /\ dbOpen' = AfterClose("worker")
    /\ Return(i, [status |-> "raised", error |-> TRUE, backup_path |-> NoPath])
    /\ UNCHANGED << rows, repo_id, clock >>

\* A process_repository that logs a failed store call and reports success.
StoreCallSwallowed(i) ==
    /\ stage' = [stage EXCEPT ![i].db = "failed"]
    /\ dbOpen' = AfterClose("worker")
    /\ Return(i, Success(snap[i]))
    /\ UNCHANGED << rows, repo_id, clock >>

\* A store call of a task fails: DatabaseError leaves the with block, whose
\* __exit__ closes the store, and process_repository returns a failed outcome.
StoreCallFailed(i) ==
    /\ stage' = [stage EXCEPT ![i].db = "failed"]
    /\ dbOpen' = AfterClose("worker")
    /\ Return(i, Failed)
    /\ UNCHANGED << rows, repo_id, clock >>

\* with self.db: repo_id = self.db.add_repository(name, url, local_path)
DbAdd(i) ==
    /\ pc[i] = "db_add"
    /\ LET d == Descriptor(i)
       IN  \/ /\ StoreUsable("worker")
              /\ rows' = AddRepository(rows, d.name, d.url, d.local_path)
              /\ repo_id' = [repo_id EXCEPT ![i] =
                                <<AddRepositoryId(rows, d.name, d.url, d.local_path)>>]
              /\ Did(i, {"db"})
              /\ pc' = [pc EXCEPT ![i] = "db_update"]
              /\ UNCHANGED << outcome, stage, dbOpen, faults, clock >>
           \/ \* the connection is closed or bound to the main thread
              /\ ~StoreUsable("worker")
              /\ StoreCallFailed(i)
              /\ UNCHANGED << ops, faults >>
           \/ \* sqlite raises
              /\ StoreUsable("worker")
              /\ StoreCallFailed(i)
              /\ Faults(1)
              /\ UNCHANGED ops
    /\ UNCHANGED << envVars, countVars, shutdown, mainVars, snap, cancelSeen,
                    retry, sync_result, progress_bars, dbCall, lp, synced, backups >>

\* self.db.update_last_sync(repo_id, datetime.now().isoformat())
DbUpdate(i) ==
    /\ pc[i] = "db_update"
    /\ \/ /\ StoreUsable("worker")
          /\ rows' = UpdateLastSync(rows, repo_id[i][1], clock)
          /\ Did(i, {"db"})
          /\ pc' = [pc EXCEPT ![i] = "db_exit"]
          /\ UNCHANGED << outcome, stage, dbOpen, repo_id, faults, clock >>
       \/ /\ ~StoreUsable("worker")
          /\ StoreCallFailed(i)
          /\ UNCHANGED << ops, faults >>
       \/ /\ StoreUsable("worker")
          /\ StoreCallFailed(i)
          /\ Faults(1)
          /\ UNCHANGED ops
    /\ UNCHANGED << envVars, countVars, shutdown, mainVars, snap, cancelSeen,
                    retry, sync_result, progress_bars, dbCall, lp, synced, backups >>

\* The with block ends: RepositoryDatabase.__exit__ closes the store; then
\* sync_result['backup_path'] = backup_path and the result is returned.
DbExit(i) ==
    /\ pc[i] = "db_exit"
    /\ dbOpen' = AfterClose("worker")
    /\ stage' = [stage EXCEPT ![i].db = "ok"]
    /\ Return(i, Success(snap[i]))
    /\ UNCHANGED << envVars, countVars, shutdown, mainVars, ops, snap, cancelSeen,
                    repo_id, retry, sync_result, progress_bars, fsVars, rows, dbCall, faults >>

\* ------------------------------------------------------------ main thread

\* _signal_handler: SIGINT or SIGTERM sets shutdown_event.
\* A signal after the last read of the flag (the cleanup test) changes nothing
\* the program does, and is left out.
SignalHandler ==
    /\ entry = "backup_and_sync"
    /\ mainPc \in {"start", "submit", "collect"}
    /\ ~shutdown
    /\ shutdown' = TRUE
    /\ UNCHANGED << envVars, countVars, mainVars, taskVars, fsVars, dbVars, faults >>

\* backup_and_sync: load_repositories, and the test for an empty list.
LoadRepositories ==
    /\ entry = "backup_and_sync"
    /\ mainPc = "start"
    /\ \/ /\ configStatus = "ok" /\ repositories # <<>>
          /\ mainPc' = "submit"
          /\ UNCHANGED raised
       \/ \* no file, or no descriptor in it: "No repositories configured"
          /\ configStatus = "missing" \/ (configStatus = "ok" /\ repositories = <<>>)
          /\ mainPc' = "finally"
          /\ UNCHANGED raised
       \/ \* ConfigError
          /\ configStatus = "invalid"
          /\ mainPc' = "finally"
          /\ raised' = TRUE
    /\ UNCHANGED << envVars, countVars, shutdown, results, pruned, cleanupError, runRaised, closeCalls, statsOk, taskVars,
                    fsVars, dbVars, faults >>

\* for repo in repositories: executor.submit(self.process_repository, repo,
\* ...): the tasks enter the queue of the pool in file order.
Submit ==
    /\ mainPc = "submit"
    /\ pc' = [i \in Tasks |-> "queued"]
    /\ mainPc' = "collect"
    /\ UNCHANGED << envVars, countVars, shutdown, results, raised, pruned, cleanupError, runRaised, closeCalls, statsOk, outcome,
                    stage, ops, snap, cancelSeen, repo_id, retry, sync_result, progress_bars, fsVars, dbVars,
                    faults >>

\* A loop that keeps the results of the successful tasks only.
StoreSuccessOnly(map, name, value) ==
    IF value.status = "success"
    THEN [n \in DOMAIN map \cup {name} |-> IF n = name THEN value ELSE map[n]]
    ELSE map

\* results[repo['name']] = value
Store(map, name, value) ==
    [n \in DOMAIN map \cup {name} |-> IF n = name THEN value ELSE map[n]]

\* The results dict after the first k futures, in submission order.
RECURSIVE Collected(_)
Collected(k) ==
    IF k = 0 THEN << >>
    ELSE Store(Collected(k - 1), repositories[k], outcome[k])

\* cleanup_old_backups(max_backups) on directory dir when no rmtree fails.
CleanupOldBackups(dir, keep) == dir \ Surplus(dir, keep)

\* stats = self.db.get_sync_statistics(); DatabaseError leaves backup_and_sync.
Statistics ==
    \/ /\ StoreUsable("main")
       /\ statsOk' = TRUE
       /\ UNCHANGED << raised, faults >>
    \/ \* the connection has been closed
       /\ ~StoreUsable("main")
       /\ raised' = TRUE
       /\ UNCHANGED << statsOk, faults >>
    \/ \* sqlite raises
       /\ StoreUsable("main")
       /\ raised' = TRUE
       /\ Faults(1)
       /\ UNCHANGED statsOk

\* A backup_and_sync that prunes whatever the flag says.
CleanupAlways ==
    /\ backups' = CleanupOldBackups(backups, MaxBackups)
    /\ pruned' = pruned + 1
    /\ UNCHANGED cleanupError
    /\ Statistics

\* if not self.shutdown_event.is_set(): self.git_sync.cleanup_old_backups(),
\* and then the statistics, unless the cleanup raised.
Cleanup ==
    \/ /\ ShutdownRequested
       /\ UNCHANGED << backups, pruned, cleanupError >>
       /\ Statistics
    \/ /\ ~ShutdownRequested
       /\ backups' = CleanupOldBackups(backups, MaxBackups)
       /\ pruned' = pruned + 1
       /\ UNCHANGED cleanupError
       /\ Statistics
    \/ \* os.listdir raises, or a shutil.rmtree after k removals: GitSyncError
       \* leaves backup_and_sync
       /\ ~ShutdownRequested
       /\ \E order \in RemovalOrders(backups, MaxBackups) :
          \E k \in 0..Max(0, Len(order) - 1) :
             backups' = backups \ {order[j] : j \in 1..k}
       /\ pruned' = pruned + 1
       /\ cleanupError' = TRUE
       /\ raised' = TRUE
       /\ Faults(1)
       /\ UNCHANGED statsOk

\* backup_and_sync once every task has returned.  for future in
\* future_to_repo: results[repo['name']] = future.result() (process_repository
\* never raises, so the except clause of the loop is not taken); then the
\* summary, the cleanup and the statistics.  Only the main thread runs by now.
Collect ==
    /\ entry = "backup_and_sync"
    /\ mainPc = "collect"
    /\ \A i \in Tasks : pc[i] = "done"
    /\ results' = Collected(NumRepos)
    /\ Cleanup
    /\ mainPc' = "finally"
    /\ UNCHANGED << envVars, countVars, shutdown, runRaised, closeCalls, taskVars,
                    lp, synced, clock, dbVars >>

\* run(): except Exception as e: logger.error(...); raise.  What left
\* backup_and_sync leaves run() too, after the finally block.
RunReraises(exc) == exc

\* run(): finally: self.db.close().  close() catches what conn.close() raises,
\* so the finally block always completes.
RunFinally ==
    /\ mainPc = "finally"
    /\ mainPc' = "exit"
    /\ dbOpen' = AfterClose("main")
    /\ closeCalls' = closeCalls + 1
    /\ runRaised' = RunReraises(raised)
    /\ UNCHANGED << envVars, countVars, shutdown, results, raised, pruned,
                    cleanupError, statsOk, taskVars, fsVars, rows, dbCall, faults >>

\* ------------------------------------------ sync_multiple_repositories

\* A pool worker takes the next task off the queue and enters sync_repo (no
\* progress callback is given).
SyncRepoStart(i) ==
    /\ entry = "sync_multiple_repositories"
    /\ Dequeue(i)
    /\ pc' = [pc EXCEPT ![i] = "sync"]
    /\ UNCHANGED << envVars, countVars, shutdown, mainVars, outcome, stage, ops,
                    snap, cancelSeen, repo_id, retry, sync_result, progress_bars, fsVars, dbVars, faults >>

\* completed += 1, first half: the nonlocal is read.
CountRead(i) ==
    /\ pc[i] = "count"
    /\ seen' = [seen EXCEPT ![i] = completed]
    /\ pc' = [pc EXCEPT ![i] = "count_write"]
    /\ UNCHANGED << envVars, completed, shutdown, mainVars, outcome, stage, ops,
                    snap, cancelSeen, repo_id, retry, sync_result, progress_bars, fsVars, dbVars, faults >>

\* completed += 1, second half: the sum is stored; sync_repo returns.
CountWrite(i) ==
    /\ pc[i] = "count_write"
    /\ completed' = seen[i] + 1
    /\ pc' = [pc EXCEPT ![i] = "done"]
    /\ UNCHANGED << envVars, seen, shutdown, mainVars, outcome, stage, ops,
                    snap, cancelSeen, repo_id, retry, sync_result, progress_bars, fsVars, dbVars, faults >>

\* executor.submit(sync_repo, repo) for repo in repositories.
SyncMultipleSubmit ==
    /\ entry = "sync_multiple_repositories"
    /\ mainPc = "start"
    /\ pc' = [i \in Tasks |-> "queued"]
    /\ mainPc' = "collect"
    /\ UNCHANGED << envVars, countVars, shutdown, results, raised, pruned, cleanupError, runRaised, closeCalls,
                    statsOk, outcome, stage, ops, snap, cancelSeen, repo_id, retry, sync_result, progress_bars,
                    fsVars, dbVars, faults >>

\* for future in future_to_repo: name, result = future.result();
\* results[name] = result (sync_repo catches what it raises); return results.
SyncMultipleCollect ==
    /\ entry = "sync_multiple_repositories"
    /\ mainPc = "collect"
    /\ \A i \in Tasks : pc[i] = "done"
    /\ results' = Collected(NumRepos)
    /\ mainPc' = "exit"
    /\ UNCHANGED << envVars, countVars, shutdown, raised, pruned, cleanupError, runRaised, closeCalls, statsOk,
                    taskVars, fsVars, dbVars, faults >>

\* -------------------------------------------- clone_repository by itself

\* git_sync.clone_repository(url, local_path) called by the main thread.
CloneCall ==
    /\ entry = "clone_repository"
    /\ mainPc = "start"
    /\ mainPc' = "call"
    /\ pc' = [i \in Tasks |-> "clone"]
    /\ UNCHANGED << envVars, countVars, shutdown, results, raised, pruned,
                    cleanupError, runRaised, closeCalls, statsOk, outcome, stage, ops, snap,
                    cancelSeen, repo_id, retry, sync_result, progress_bars, fsVars, dbVars, faults >>

\* ------------------------------------------- backup_repository by itself

\* git_sync.backup_repository(local_path, repo_name) called by the main
\* thread.
BackupCall ==
    /\ entry = "backup_repository"
    /\ mainPc = "start"
    /\ mainPc' = "call"
    /\ pc' = [i \in Tasks |-> "backup"]
    /\ UNCHANGED << envVars, countVars, shutdown, results, raised, pruned,
                    cleanupError, runRaised, closeCalls, statsOk, outcome, stage, ops, snap,
                    cancelSeen, repo_id, retry, sync_result, progress_bars, fsVars, dbVars, faults >>

\* ------------------------------------------------------ the store by itself

\* db.add_repository(name, url, local_path) called by the main thread, while
\* the table holds at most MaxRows rows; when sqlite raises, the transaction
\* is rolled back and DatabaseError raised.
DbAddCall ==
    /\ entry = "database"
    /\ StoreUsable("main")
    /\ \/ \E t \in Triples :
             /\ AddRepositoryId(rows, t[1], t[2], t[3]) <= MaxRows
             /\ rows' = AddRepository(rows, t[1], t[2], t[3])
             /\ dbCall' = << [args   |-> t,
                              id     |-> AddRepositoryId(rows, t[1], t[2], t[3]),
                              before |-> rows,
                              after  |-> rows'] >>
             /\ UNCHANGED faults
       \/ /\ Faults(1)
          /\ UNCHANGED << rows, dbCall >>
    /\ UNCHANGED << envVars, countVars, shutdown, mainVars, taskVars, fsVars,
                    dbOpen >>

\* db.deactivate_repository(repo_id) called by the main thread on a row that
\* is active.
DbDeactivateCall ==
    /\ entry = "database"
    /\ StoreUsable("main")
    /\ \E id \in RowIds(rows) :
          /\ rows[id].is_active
          /\ rows' = DeactivateRepository(rows, id)
    /\ UNCHANGED << envVars, countVars, shutdown, mainVars, taskVars, fsVars,
                    dbOpen, dbCall, faults >>

\* ------------------------------------------------------------ specification

Next ==
    \/ SignalHandler
    \/ LoadRepositories
    \/ Submit
    \/ Collect
    \/ RunFinally
    \/ \E i \in Tasks : TaskStart(i)
    \/ \E i \in Tasks : CloneRepository(i)
    \/ \E i \in Tasks : SyncRepository(i)
    \/ \E i \in Tasks : BackupRepository(i)
    \/ \E i \in Tasks : DbAdd(i)
    \/ \E i \in Tasks : DbUpdate(i)
    \/ \E i \in Tasks : DbExit(i)
    \/ SyncMultipleSubmit
    \/ SyncMultipleCollect
    \/ \E i \in Tasks : SyncRepoStart(i)
    \/ \E i \in Tasks : CountRead(i)
    \/ \E i \in Tasks : CountWrite(i)
    \/ CloneCall
    \/ BackupCall
    \/ DbAddCall
    \/ DbDeactivateCall

Spec == Init /\ [][Next]_vars

\* The steps of the program's own threads: every step but the arrival of a
\* signal.  Each underlying call returns and a runnable thread is scheduled:
\* while a thread can take a step, a step is taken.
ThreadStep ==
    \/ LoadRepositories
    \/ Submit
    \/ Collect
    \/ RunFinally
    \/ \E i \in Tasks : \/ TaskStart(i)
                         \/ CloneRepository(i)
                         \/ SyncRepository(i)
                         \/ BackupRepository(i)
                         \/ DbAdd(i)
                         \/ DbUpdate(i)
                         \/ DbExit(i)

\* run() by itself, with the signal that can arrive while it runs, on a
\* backup directory that starts empty.
LiveInit == Init /\ entry = "backup_and_sync" /\ backups0 = {}
LiveNext == SignalHandler \/ ThreadStep
LiveSpec == LiveInit /\ [][LiveNext]_vars /\ WF_vars(ThreadStep)

\* ------------------------------------------------------------------ claims

Done(i) == pc[i] = "done"

\* The process_repository calls of the run.
ProcessTasks == IF entry = "backup_and_sync" THEN Tasks ELSE {}

\* The run has left the collection loop of backup_and_sync or of
\* sync_multiple_repositories.
LoopLeft == mainPc \in {"finally", "exit"} /\ NumRepos > 0

\* The rows of the store that carry a name and a last-sync time.
Stamped(name) ==
    \E id \in RowIds(rows) : rows[id].name = name /\ rows[id].last_sync # << >>

\* clone_repository was called by task i.
CloneCalled(i) == stage[i].clone \in {"ok", "failed"}

\* C1: for N descriptors with pairwise distinct names, whatever the pool size
\* and however many tasks fail, the results dict of the run (of
\* backup_and_sync and of sync_multiple_repositories) has exactly N keys once
\* the collection loop is left: the N descriptor names.
C1_ResultKeys ==
    (LoopLeft /\ DistinctNames) =>
        /\ Cardinality(DOMAIN results) = NumRepos
        /\ DOMAIN results = {repositories[i] : i \in Tasks}

\* Two distinct names, both tasks failed, two keys.
C1_TwoFailedTwoKeys ==
    /\ mainPc = "exit"
    /\ NumRepos >= 2
    /\ DistinctNames
    /\ \A i \in Tasks : outcome[i].status = "failed"
    /\ Cardinality(DOMAIN results) = NumRepos

\* C2: process_repository never raises: every call that has ended returned
\* an outcome, and a call in which the clone, the sync, the snapshot copy or
\* the store update failed has ended with status failed or cancelled and an
\* error detail.
C2_NeverRaises ==
    \A i \in ProcessTasks :
        /\ Done(i) => outcome[i].status \in {"success", "failed", "cancelled"}
        /\ outcome[i].status \in {"failed", "cancelled"} => outcome[i].error
        /\ (\/ stage[i].clone = "failed"
            \/ stage[i].sync = "failed"
            \/ stage[i].backup = "failed"
            \/ stage[i].db = "failed")
           => /\ Done(i)
              /\ outcome[i].status \in {"failed", "cancelled"}

\* One task failed in its clone, another in its store update.
C2_CloneAndStoreFailures ==
    \E i, j \in ProcessTasks :
        /\ stage[i].clone = "failed" /\ outcome[i].status = "failed"
        /\ stage[j].db = "failed" /\ outcome[j].status = "failed"

\* C3: a task that finds the flag set when it begins ends cancelled and has
\* done nothing: no clone, fetch, pull or copy, no directory created or
\* removed, no store write; when every task of the run found it set, the
\* store and the backup directory are as the run found them.
C3_CancelledBeforeStart ==
    /\ \A i \in ProcessTasks :
          cancelSeen[i] =>
              /\ Done(i)
              /\ outcome[i].status = "cancelled"
              /\ outcome[i].error
              /\ ops[i] = {}
              /\ stage[i] = NoStages
              /\ snap[i] = NoPath
              /\ repo_id[i] = << >>
              /\ lp[i] \in LocalPaths0
              /\ (lp[i] = "repo") = marker0[i]
    /\ (ProcessTasks # {} /\ \A i \in ProcessTasks : cancelSeen[i]) =>
          /\ rows = NoRows
          /\ backups = backups0

\* A run of two tasks that both found the flag set has ended.
C3_AllCancelled ==
    /\ mainPc = "exit"
    /\ NumRepos >= 2
    /\ \A i \in ProcessTasks : cancelSeen[i] /\ outcome[i].status = "cancelled"

\* C4: once the flag is set no task starts a new stage: a task standing
\* before its clone, sync, backup or store stage then takes no step but the
\* one that ends it cancelled, without a further side effect.
C4_NoStageAfterCancel ==
    [][\A i \in ProcessTasks :
          (shutdown /\ pc[i] \in {"clone", "sync", "backup", "db_add"}) =>
              \/ pc'[i] = pc[i]
              \/ /\ pc'[i] = "done"
                 /\ outcome'[i].status = "cancelled"
                 /\ ops'[i] = ops[i]]_vars

\* C5: each stage of a task starts only after the stages before it
\* succeeded: fetch/pull only after the clone succeeded or was skipped, the
\* copy only after the sync returned success, the store update only after the
\* copy succeeded; a failed clone or sync is followed by no later stage.
C5_StageOrder ==
    \A i \in ProcessTasks :
        /\ (ops[i] \cap {"fetch", "pull"} # {} \/ stage[i].sync # "none")
              => stage[i].clone \in {"ok", "skipped"}
        /\ ("copy" \in ops[i] \/ stage[i].backup # "none")
              => stage[i].sync = "success"
        /\ ("db" \in ops[i] \/ stage[i].db # "none" \/ repo_id[i] # << >>)
              => stage[i].backup = "ok"
        /\ pc[i] = "sync" => stage[i].clone \in {"ok", "skipped"}
        /\ pc[i] = "backup" => stage[i].sync = "success"
        /\ pc[i] \in {"db_add", "db_update", "db_exit"} => stage[i].backup = "ok"
        /\ stage[i].clone = "failed"
              => /\ Done(i)
                 /\ ops[i] \cap {"fetch", "pull", "copy", "db"} = {}
        /\ stage[i].sync = "failed"
              => /\ Done(i)
                 /\ ops[i] \cap {"copy", "db"} = {}

\* A task whose clone succeeded and whose fetch/pull then failed has ended.
C5_SyncFailedAfterClone ==
    \E i \in ProcessTasks :
        /\ Done(i)
        /\ stage[i].clone = "ok"
        /\ stage[i].sync = "failed"
        /\ "fetch" \in ops[i]

\* C6: an outcome is success only if that task created a snapshot (which is
\* in the backup directory as long as the run has not pruned it) and
\* updated the store: the row of its descriptor exists and carries a
\* last-sync time from the moment the task is done.
C6_SuccessMeansPersisted ==
    \A i \in ProcessTasks :
        outcome[i].status = "success" =>
            /\ stage[i].backup = "ok"
            /\ snap[i] # NoPath
            /\ outcome[i].backup_path = snap[i]
            /\ mainPc = "collect" => snap[i][1] \in backups
            /\ stage[i].db = "ok"
            /\ {"db"} \subseteq ops[i]
            /\ repo_id[i] # << >>
            /\ repo_id[i][1] \in RowIds(rows)
            /\ rows[repo_id[i][1]].name = repositories[i]
            /\ rows[repo_id[i][1]].last_sync # << >>

\* A task of a run over two descriptors has ended with success.
C6_OneSuccess ==
    /\ NumRepos >= 2
    /\ \E i \in ProcessTasks : Done(i) /\ outcome[i].status = "success"

\* C7: the store handle stays usable for the whole run: when a run over at
\* least two descriptors has ended in which every clone, fetch/pull and copy
\* succeeded and nothing in the environment failed, every outcome is
\* success, every descriptor has a row with a last-sync time, and the
\* statistics query succeeded.
C7_StoreStaysUsable ==
    (/\ entry = "backup_and_sync"
     /\ mainPc = "exit"
     /\ NumRepos >= 2
     /\ faults = 0
     /\ \A i \in ProcessTasks : /\ stage[i].clone \in {"ok", "skipped"}
                         /\ stage[i].sync = "success"
                         /\ stage[i].backup = "ok")
    => /\ \A i \in ProcessTasks : outcome[i].status = "success"
       /\ \A i \in ProcessTasks : Stamped(repositories[i])
       /\ statsOk

\* C8: when the store update of a task fails after its snapshot copy
\* succeeded, the outcome is failed with an error detail, and the snapshot
\* is in the backup directory from then on (up to the pruning of the run).
C8_SnapshotKeptOnStoreFailure ==
    \A i \in ProcessTasks :
        (stage[i].backup = "ok" /\ stage[i].db = "failed") =>
            /\ Done(i)
            /\ outcome[i].status = "failed"
            /\ outcome[i].error
            /\ mainPc = "collect" => snap[i][1] \in backups

\* A store update failed after the copy, and the snapshot is there.
C8_StoreFailedSnapshotThere ==
    \E i \in ProcessTasks :
        /\ mainPc = "collect"
        /\ stage[i].backup = "ok"
        /\ stage[i].db = "failed"
        /\ outcome[i].status = "failed"
        /\ snap[i][1] \in backups

\* C9: when fetch/pull succeeded and the snapshot copy failed, the outcome is
\* failed, the task made no store call (with distinct names no row carries
\* its name), and the working copy is the checkout the sync updated.
C9_CopyFailureLeavesWorkingCopy ==
    \A i \in ProcessTasks :
        (stage[i].sync = "success" /\ stage[i].backup = "failed") =>
            /\ Done(i)
            /\ outcome[i].status = "failed"
            /\ outcome[i].error
            /\ "db" \notin ops[i]
            /\ stage[i].db = "none"
            /\ repo_id[i] = << >>
            /\ DistinctNames =>
                  \A id \in RowIds(rows) : rows[id].name # repositories[i]
            /\ lp[i] = "repo"
            /\ synced[i]

\* A copy failed after a successful fetch/pull.
C9_CopyFailed ==
    \E i \in ProcessTasks :
        /\ Done(i)
        /\ stage[i].sync = "success"
        /\ stage[i].backup = "failed"
        /\ "copy" \in ops[i]
        /\ synced[i]

\* With the marker present the clone is skipped and the working copy stays.
MarkerRespected(i) ==
    marker0[i] =>
        /\ stage[i].clone = "skipped"
        /\ "rmtree" \notin ops[i]
        /\ lp[i] = "repo"

\* C10, as the specification states it: a task that was not cancelled calls
\* clone_repository if and only if its local path had no checkout marker when
\* it started.
C10_CloneIffNoMarker ==
    \A i \in ProcessTasks :
        (Done(i) /\ ~cancelSeen[i]) =>
            /\ CloneCalled(i) <=> ~marker0[i]
            /\ MarkerRespected(i)

\* C10, amended: a task that was not cancelled calls clone_repository only
\* if its local path had no checkout marker when it started, and does call it
\* whenever there was no marker and the local directory could be created;
\* with the marker present the clone is skipped and the working copy is never
\* deleted.
C10_CloneIffNoMarkerAndDirectory ==
    \A i \in ProcessTasks :
        (Done(i) /\ ~cancelSeen[i]) =>
            /\ CloneCalled(i) => ~marker0[i]
            /\ (~marker0[i] /\ "makedirs" \in ops[i]) => CloneCalled(i)
            /\ MarkerRespected(i)

\* One task skipped the clone of a checkout, another cloned into a path
\* without one.
C10_SkippedAndCloned ==
    \E i, j \in ProcessTasks :
        /\ Done(i) /\ ~cancelSeen[i] /\ marker0[i] /\ stage[i].clone = "skipped"
        /\ Done(j) /\ ~cancelSeen[j] /\ ~marker0[j] /\ stage[j].clone = "ok"

\* The body of backup_and_sync has ended for a list of at least one
\* descriptor (the tasks were dispatched).
RunEnded ==
    /\ entry = "backup_and_sync"
    /\ mainPc \in {"finally", "exit"}
    /\ configStatus = "ok"
    /\ NumRepos > 0

\* Every stage of task i before the store returned normally.
StagesOk(i) ==
    /\ stage[i].clone \in {"ok", "skipped"}
    /\ stage[i].sync = "success"
    /\ stage[i].backup = "ok"

\* C11: task failures are isolated: in a run of two descriptors of which one
\* is unreachable (its clone fails on every attempt) and the other is healthy
\* (its clone, fetch/pull and copy succeed and nothing else in the
\* environment fails), the results hold one failed and one success entry:
\* failed for the unreachable descriptor, success for the healthy one.
C11_FailureIsolated ==
    \A i, j \in ProcessTasks :
        (/\ mainPc = "exit"
         /\ NumRepos = 2
         /\ DistinctNames
         /\ i # j
         /\ stage[i].clone = "failed"
         /\ StagesOk(j)
         /\ faults = 1)
        => /\ results[repositories[i]].status = "failed"
           /\ results[repositories[j]].status = "success"

\* C12: the pool size of backup_and_sync is the --workers value clamped into
\* 1..10 (the value itself when it lies in the range, 1 below it, 10 above
\* it), and at no time do more tasks than that execute.
C12_ConcurrencyLimit ==
    entry = "backup_and_sync" =>
        /\ max_workers \in 1..10
        /\ requestedWorkers \in 1..10 => max_workers = requestedWorkers
        /\ requestedWorkers < 1 => max_workers = 1
        /\ requestedWorkers > 10 => max_workers = 10
        /\ Cardinality(Running) <= max_workers
        /\ PoolSize = max_workers

\* A request below the range: one task executes, the other waits in the
\* queue.
C12_LimitReached ==
    /\ entry = "backup_and_sync"
    /\ requestedWorkers < 1
    /\ NumRepos >= 2
    /\ Cardinality(Running) = max_workers
    /\ \E i \in Tasks : pc[i] = "queued"

\* C13: in a run with at least one descriptor cleanup_old_backups is called
\* at most once and only when every task has returned; once the body of
\* backup_and_sync has ended it was called exactly once if the flag was never
\* set, and not at all if the flag was set.
C13_PruneOnceAfterSettle ==
    /\ pruned <= 1
    /\ pruned = 1 =>
          /\ \A i \in Tasks : Done(i)
          /\ NumRepos > 0
          /\ ~shutdown
    /\ RunEnded => pruned = (IF shutdown THEN 0 ELSE 1)

\* A run of two tasks, one of them failed, has pruned once.
C13_PrunedOnce ==
    /\ RunEnded
    /\ NumRepos >= 2
    /\ ~shutdown
    /\ pruned = 1
    /\ \E i \in Tasks : outcome[i].status = "failed"

\* C14: once the tasks have been dispatched backup_and_sync does not raise:
\* when its body has ended for a list of at least one descriptor, no error
\* has left it, whatever failed in a task, in the pruning or in the
\* statistics query.
C14_NoRaiseAfterDispatch ==
    RunEnded => ~raised

\* The snapshots of repository `name` among the entries of dir, and the
\* `keep` of a set of snapshots with the newest timestamps.
SnapshotsOf(dir, name) == {e \in dir : e.name = name}
Newest(S, keep) == {e \in S : Cardinality({f \in S : f.ts > e.ts}) < keep}
KeptPerName(dir, keep) ==
    UNION {Newest(SnapshotsOf(dir, e.name), keep) : e \in dir}

\* C15: a cleanup_old_backups call that does not fail leaves, for every
\* repository name (names with an underscore included), exactly the
\* min(n, max_backups) snapshots of that name with the newest timestamps.
C15_KeepsNewestPerName ==
    [][(pruned' = pruned + 1 /\ ~cleanupError')
          => backups' = KeptPerName(backups, MaxBackups)]_vars

\* C16: pruning is best-effort per entry: a cleanup_old_backups call that
\* has deleted a snapshot does not fail, and leaves at most the one
\* over-quota snapshot whose deletion failed.
C16_BestEffortPruning ==
    [][(pruned' = pruned + 1 /\ backups' # backups)
          => /\ ~cleanupError'
             /\ Cardinality(Surplus(backups, MaxBackups) \cap backups') <= 1]_vars

\* retry_operation, for an operation that fails k times and then succeeds,
\* did what C17 says.
SucceededAfter(k, r) ==
    /\ r.returned
    /\ r.calls = k + 1
    /\ Len(r.sleeps) = k
    /\ \A j \in 1..k : r.sleeps[j] = 2^(j - 1)

\* C17: for every k < max_retries, retry_operation on an operation that
\* fails k times and then succeeds returns after k + 1 invocations and k
\* sleeps, the sleep of index j (from 0) lasting 2^j seconds; so did every
\* such call a task made.
C17_RetrySucceedsAfterK ==
    /\ \A k \in 0..(MaxRetries - 1) : SucceededAfter(k, RetryOperation(k))
    /\ \A i \in Tasks :
          (retry[i] # NoRetry /\ retry[i][1].fails < MaxRetries)
              => SucceededAfter(retry[i][1].fails, retry[i][1].did)

\* A task's operation succeeded at the last attempt, after two sleeps.
C17_SucceededAtLastAttempt ==
    \E i \in Tasks :
        /\ retry[i] # NoRetry
        /\ retry[i][1].fails = MaxRetries - 1
        /\ retry[i][1].did.returned
        /\ Len(retry[i][1].did.sleeps) = MaxRetries - 1

\* retry_operation, for an operation that fails every time, did what C18
\* says.
Exhausted(r) ==
    /\ ~r.returned
    /\ r.calls = MaxRetries
    /\ Len(r.sleeps) = MaxRetries - 1
    /\ r.last_error = <<MaxRetries - 1>>

\* C18: retry_operation on an operation that fails on every attempt invokes
\* it max_retries times, sleeps max_retries - 1 times, and fails with the
\* error of the last attempt; so did every such call a task made.
C18_RetryExhausted ==
    /\ \A k \in MaxRetries..(MaxRetries + 1) : Exhausted(RetryOperation(k))
    /\ \A i \in Tasks :
          (retry[i] # NoRetry /\ retry[i][1].fails >= MaxRetries)
              => Exhausted(retry[i][1].did)

\* The copy of a task failed on every attempt and the task has ended failed.
C18_CopyExhausted ==
    \E i \in Tasks :
        /\ retry[i] # NoRetry
        /\ retry[i][1].fails >= MaxRetries
        /\ stage[i].backup = "failed"
        /\ Done(i)

\* clone_repository raised / returned True.
CloneRaised(i) == stage[i].clone = "failed"
CloneReturnedTrue(i) == stage[i].clone = "ok"

C20_ReturnsFalseOnFailure ==
    \A i \in Tasks :
        /\ (retry[i] # NoRetry /\ "clone" \in ops[i] /\ stage[i].sync = "none"
              /\ retry[i][1].fails = 0)
             => /\ CloneReturnedTrue(i)
                /\ retry[i][1].did.calls = 1
                /\ lp[i] = "repo"
        /\ (retry[i] # NoRetry /\ "clone" \in ops[i] /\ stage[i].sync = "none"
              /\ retry[i][1].fails >= MaxRetries)
             => ~CloneRaised(i)

\* sync_repository has returned for task i.
SyncReturned(i) == stage[i].sync # "none"

RunFinished == entry = "backup_and_sync" /\ mainPc = "exit"

\* C29: run() closes the store exactly once before it finishes, and when
\* backup_and_sync raised, run() has closed the store and returns without
\* the exception reaching its caller.
C29_RunClosesAndSwallows ==
    RunFinished => (closeCalls = 1 /\ ~dbOpen /\ ~runRaised)

\* backup_repository raised GitSyncError / returned backup_path.
BackupRaised(i) == stage[i].backup = "failed"
BackupReturnedPath(i) == stage[i].backup = "ok"

\* backup_repository was called for task i and its copy could not complete:
\* there was no source, or no attempt of the copy returned.
CopyNotCompleted(i) ==
    /\ "copy" \in ops[i]
    /\ retry[i] # NoRetry
    /\ (lp[i] = "absent" \/ ~retry[i][1].did.returned)

C23_ReturnsEmptyOnMissingSource ==
    \A i \in Tasks :
        (entry = "backup_repository" /\ "copy" \in ops[i] /\ lp[i] = "absent")
            => ~BackupRaised(i)

\* C24: after a successful backup_repository(source, name), the returned
\* path is a directory named name_<timestamp> directly under the base backup
\* directory, and it holds the whole of the source.
C24_SnapshotRoundTrip ==
    \A i \in Tasks :
        (entry = "backup_repository" /\ BackupReturnedPath(i)) =>
            /\ snap[i] # NoPath
            /\ LET e == snap[i][1]
               IN  /\ e \in backups
                   /\ e.complete
                   /\ e.name = repositories[i]
                   /\ e.ts \in FirstSecond..LastSecond
                   /\ DirectlyUnderBase(e)

\* The scheme is http or https; the host is one of the hosting domains.
SchemeAllowed(url) == url.scheme \in valid_schemes
HostAllowed(url) == url.netloc \in valid_domains

\* The number of non-empty segments of a path: the characters other than
\* '/' that start the path or follow a '/'.
NonEmptySegments(p) ==
    Cardinality({k \in 1..Len(p) : p[k] # "/" /\ (k = 1 \/ p[k - 1] = "/")})

\* C25: validate_repo_url returns false for every url whose scheme is not
\* http or https and for every url whose host is not one of the hosting
\* domains, a host that only contains one of them included; clone_repository
\* clones from no such url.
C25_RejectsSchemeAndHost ==
    \A i \in Tasks :
        (entry = "clone_repository"
           /\ (~SchemeAllowed(urls[i]) \/ ~HostAllowed(urls[i])))
            => /\ ~ValidateRepoUrl(urls[i])
               /\ ~CloneReturnedTrue(i)

\* C26: for a url with scheme http or https and one of the hosting domains
\* as host, validate_repo_url returns true if and only if the path has at
\* least two non-empty segments, whatever slashes lead, trail or are doubled;
\* clone_repository rejects the url before it creates anything otherwise.
C26_TwoNonEmptySegments ==
    \A i \in Tasks :
        (entry = "clone_repository" /\ SchemeAllowed(urls[i])
           /\ HostAllowed(urls[i])) =>
            /\ ValidateRepoUrl(urls[i]) <=> NonEmptySegments(urls[i].path) >= 2
            /\ (CloneCalled(i) /\ NonEmptySegments(urls[i].path) < 2)
                  => (CloneRaised(i) /\ ops[i] \cap {"makedirs", "clone"} = {})

\* clone_repository has rejected "https://github.com//u/", whose three
\* segments hold one non-empty one, without an attempt to clone.
C26_SlashesRejected ==
    \E i \in Tasks :
        /\ entry = "clone_repository"
        /\ urls[i] = Url("https", <<"github.com">>, <<"/", "/", "u", "/">>)
        /\ CloneRaised(i)
        /\ "clone" \notin ops[i]

\* The rows of a table that hold the triple t.
Holding(table, t) == {id \in RowIds(table) : Triple(table[id]) = t}

\* C27: add_repository is idempotent on an existing triple: called with a
\* (name, url, local_path) that a row stores, it returns the id of that row,
\* leaves the number of rows unchanged, and leaves that row active, also
\* when it had been deactivated before the call.
C27_ReAddIdempotent ==
    dbCall # << >> =>
        LET c == dbCall[1]
        IN  \A id \in Holding(c.before, c.args) :
                /\ c.id = id
                /\ Len(c.after) = Len(c.before)
                /\ c.after[id].is_active

\* C28: add_repository matches by the whole triple: called with a triple that
\* no row stores, it inserts a row with a fresh id and leaves the name, url
\* and local_path of every row there was unchanged.
C28_MatchesWholeTriple ==
    dbCall # << >> =>
        LET c == dbCall[1]
        IN  Holding(c.before, c.args) = {} =>
                /\ c.id = Len(c.before) + 1
                /\ Len(c.after) = Len(c.before) + 1
                /\ \A id \in RowIds(c.before) :
                       Triple(c.after[id]) = Triple(c.before[id])

\* backup_and_sync has returned or raised, run() has left its finally block,
\* and every task of the run has returned.
RunSettled == mainPc = "exit" /\ \A i \in Tasks : Done(i)

\* C30: when every clone, fetch, pull, copy and store call returns, a run
\* over any list of descriptors eventually finishes with every task settled,
\* whatever the pool size and whether or not a signal arrives during the run.
C30_RunTerminates == (entry = "backup_and_sync") ~> RunSettled

\* A run of two tasks through a pool of one worker has finished after a
\* signal arrived between the two: the second task saw the request.
C30_SettledWithCancellation ==
    /\ entry = "backup_and_sync"
    /\ RunSettled
    /\ NumRepos = 2
    /\ PoolSize = 1
    /\ ~cancelSeen[1]
    /\ cancelSeen[2]

\* The place of a stage in process_repository: the clone, then the sync, then
\* the backup.
StageRank(stage_name) ==
    CASE stage_name = "none"   -> 0
      [] stage_name = "clone"  -> 1
      [] stage_name = "sync"   -> 2
      [] stage_name = "backup" -> 3

C32_CompletedCountsAllTasks ==
    (entry = "sync_multiple_repositories" /\ \A i \in Tasks : Done(i))
        => completed = NumRepos

\* C33: clone_repository and sync_repository make one attempt per call: the
\* retry_operation call of a task that has not reached its backup (the one
\* of its clone, or of its sync) has called the clone, or the fetch and
\* pull, at most once.
C33_OneAttemptPerCall ==
    \A i \in Tasks :
        (retry[i] # NoRetry /\ stage[i].backup = "none")
            => retry[i][1].did.calls <= 1

\* C34: every call of the clone, the retries included, is made on a
\* destination from which what was there has been removed: no task has
\* called the clone on a destination that held files.
C34_CloneOnCleanSlate ==
    \A i \in Tasks : "clone_nonempty" \notin ops[i]

\* The seconds a retry_operation call slept in all: the sum of its waits.
RECURSIVE TotalSleep(_)
TotalSleep(sleeps) ==
    IF sleeps = << >> THEN 0 ELSE Head(sleeps) + TotalSleep(Tail(sleeps))

\* C35 as stated: a primitive whose stage is reached is invoked at least
\* once: a task that has been through its clone stage has called the clone,
\* and one that has been through its sync stage has called fetch.
C35_ReachedStageInvokesPrimitive ==
    \A i \in Tasks :
        /\ stage[i].clone \in {"ok", "failed"} => "clone" \in ops[i]
        /\ stage[i].sync \in {"success", "failed"} => "fetch" \in ops[i]

\* C35: retries are not nested.  Every retry_operation call of a task has
\* invoked its primitive at least once and at most max_retries times and has
\* slept at most 2^(max_retries-1) - 1 seconds in all; the clone, the fetch
\* and the copy are invoked by such a call only; and a stage that got as far
\* as its loop has invoked its primitive: the clone in a clone that returned,
\* fetch and pull in a sync that succeeded, the copy in every backup.
C35_RetryLoopBounds ==
    \A i \in Tasks :
        /\ retry[i] # NoRetry =>
               /\ retry[i][1].did.calls \in 1..MaxRetries
               /\ TotalSleep(retry[i][1].did.sleeps) <= Pow2(MaxRetries - 1) - 1
        /\ ops[i] \cap {"clone", "fetch", "pull", "copy"} # {} => retry[i] # NoRetry
        /\ stage[i].clone = "ok" => "clone" \in ops[i]
        /\ stage[i].sync = "success" => {"fetch", "pull"} \subseteq ops[i]
        /\ stage[i].backup # "none" => "copy" \in ops[i]

\* A task has cloned at the first attempt, synced at the last attempt and
\* used up the attempts of its copy, which slept 2^(max_retries-1) - 1
\* seconds in all.
C35_ThreeStagesRetried ==
    \E i \in Tasks :
        /\ entry = "backup_and_sync"
        /\ stage[i].clone = "ok"
        /\ stage[i].sync = "success"
        /\ stage[i].backup = "failed"
        /\ retry[i] # NoRetry
        /\ retry[i][1].did.calls = MaxRetries
        /\ ~retry[i][1].did.returned
        /\ TotalSleep(retry[i][1].did.sleeps) = Pow2(MaxRetries - 1) - 1

\* C36: a backup_repository call never modifies or replaces a snapshot
\* that exists.  Every step in which a call runs keeps every directory the
\* backup root held; when a directory of the name the call computed was
\* there, the call ends in an error and the root is unchanged; a call that
\* ends in an error has added at most what its own first attempt left at
\* that name, and a call that returns has added its one snapshot.
C36_ExistingSnapshotKept ==
    [][\A i \in Tasks :
          (pc[i] = "backup" /\ pc'[i] # "backup") =>
              LET dest == snap'[i][1]
              IN  /\ backups \subseteq backups'
                  /\ (\E e \in backups : e.name = dest.name /\ e.ts = dest.ts) =>
                         (stage'[i].backup = "failed" /\ backups' = backups)
                  /\ stage'[i].backup = "failed" =>
                         backups' \subseteq
                             backups \cup {Entry(dest.name, dest.ts, FALSE)}
                  /\ stage'[i].backup = "ok" => backups' = backups \cup {dest}]_vars

\* Two tasks of one name have computed the same destination in the same
\* second: the copy of one has made the snapshot, the other, with a checkout
\* to copy and no fault in the run, has ended in a backup error, and the
\* snapshot is there, complete.
C36_SecondBackupRefused ==
    \E i, j \in Tasks :
        /\ i # j
        /\ snap[i] # NoPath
        /\ snap[i] = snap[j]
        /\ stage[j].backup = "ok"
        /\ stage[i].backup = "failed"
        /\ lp[i] = "repo"
        /\ faults = 0
        /\ snap[j][1] \in backups

\* C37: every outcome process_repository returns has a status of success,
\* failed or cancelled; a failed or cancelled one carries an error detail and
\* no backup path; a success carries no error detail and the path of the
\* snapshot that the copy of this task created.
C37_OutcomeShape ==
    \A i \in ProcessTasks :
        Done(i) =>
            /\ outcome[i].status \in {"success", "failed", "cancelled"}
            /\ outcome[i].status \in {"failed", "cancelled"} =>
                   (outcome[i].error /\ outcome[i].backup_path = NoPath)
            /\ outcome[i].status = "success" =>
                   /\ ~outcome[i].error
                   /\ outcome[i].backup_path # NoPath
                   /\ outcome[i].backup_path = snap[i]
                   /\ stage[i].backup = "ok"
                   /\ "copy" \in ops[i]

\* Of the two tasks of a run, one has returned a success with the path of
\* its snapshot, which is in the backup root, and the other a cancelled
\* outcome.
C37_SuccessAndCancelled ==
    \E i, j \in ProcessTasks :
        /\ Done(i) /\ Done(j)
        /\ outcome[i].status = "success"
        /\ outcome[i].backup_path = snap[i]
        /\ snap[i][1] \in backups
        /\ outcome[j] = Cancelled

====
